---- MODULE Spec2Model ----
(***************************************************************************)
(* The menu state machine of src/src/components/menu/menu.tsx: the reducer *)
(* (`reducers`, `stateReducer`), the active-item resolver                  *)
(* (`calculateActiveItemIndex`) and the item bookkeeping done by <Item>     *)
(* (specification Spec), and the event handlers of <Menu>, <Menu.Button>   *)
(* and <Menu.Items> with their next-frame callbacks and the search timeout *)
(* on a rendered menu (specifications SpecUI, FairSpecUI and SpecType).    *)
(*                                                                         *)
(* Array indices are 0-based as in the source; a TLA+ sequence is 1-based, *)
(* so the element at JavaScript index i of arr is arr[i + 1].              *)
(***************************************************************************)
EXTENDS Integers, Sequences, FiniteSets, TLC

\* ---------------------------------------------------------------- bounds
\* Number of item identifiers, hence the longest item list.
MaxItems == 3
\* Longest search query; Search is not taken once the query is this long.
MaxQuery == 2

\* ---------------------------------------------------------------- values
\* `number | null`: null is a value that is not an array index and is not
\* the -1 that findIndex/indexOf return for "not found".
null == -2

MenuStates == {"Open", "Closed"}

Focus == {"FirstItem", "PreviousItem", "NextItem", "LastItem", "SpecificItem", "Nothing"}

\* Identifiers handed to items (`tailwindui-menu-item-${useId()}`).
ItemIds == 1 .. MaxItems

\* Keys with event.key.length === 1, and the characters of item labels.
Chars == {"a", "A"}

\* What document.getElementById(id)?.textContent can be for an item.
TextContents == {<<"a">>, <<"A", "a">>}

\* ------------------------------------------------- JavaScript primitives
\* Array.prototype.findIndex. `results` holds, for every element of the
\* array in order, what the callback returns for it: the index of the first
\* element the callback accepts, -1 when it accepts none.
findIndex(results) ==
  LET hits == {i \in 0 .. Len(results) - 1 : results[i + 1]}
  IN  IF hits = {} THEN -1 ELSE CHOOSE i \in hits : \A j \in hits : i <= j

\* Array.prototype.indexOf
indexOf(arr, x) == findIndex([i \in 1 .. Len(arr) |-> arr[i] = x])

\* Array.prototype.reverse (on the copy made by slice())
reverse(arr) == [i \in 1 .. Len(arr) |-> arr[Len(arr) + 1 - i]]

\* Array.prototype.splice(idx, 1)
splice(arr, idx) == [i \in 1 .. Len(arr) - 1 |-> IF i <= idx THEN arr[i] ELSE arr[i + 1]]

\* String.prototype.startsWith
startsWith(str, q) == Len(q) <= Len(str) /\ SubSeq(str, 1, Len(q)) = q

\* String.prototype.toLowerCase, character by character
lowerChar(c) == IF c = "A" THEN "a" ELSE c

toLowerCase(str) == [i \in 1 .. Len(str) |-> lowerChar(str[i])]

\* ------------------------------------------------------------- the state
\* The reducer's state (React.useReducer in <Menu>).
VARIABLES state

\* What the components keep outside the reducer:
\*   frames         the callbacks handed to d.nextFrame, oldest first;
\*   searchTimers   how many timeouts searchDisposables has pending;
\*   activeElement  document.activeElement: the trigger, the item list or
\*                  something else on the page;
\*   clicked        the id of the item whose element received the last
\*                  click() made by the item list, NoId before any;
\*   thrown         the message of the error the last render of a
\*                  component threw, NoError when it rendered.
VARIABLES frames, searchTimers, activeElement, clicked, thrown

uiVars == <<frames, searchTimers, activeElement, clicked, thrown>>

vars == <<state, frames, searchTimers, activeElement, clicked, thrown>>

NoError == <<>>

defaultState ==
  [menuState |-> "Closed",
   items |-> <<>>,
   searchQuery |-> <<>>,
   previousActiveIndex |-> null,
   activeItemIndex |-> null]

\* ----------------------------------------------------------- the resolver
\* A plausible slip: the -1 of findIndex is handed on as the index.
ensureValidValueKeepsMinusOne(s, value) == value

\* if (value === -1) return state.activeItemIndex
ensureValidValue(s, value) == IF value = -1 THEN s.activeItemIndex ELSE value

\* The entries of the table handed to match(focus, {...}), one per Focus.
\* A plausible slip: Focus.FirstItem takes the first item, disabled or not.
focusFirstItemAny(items) == 0

focusFirstItem(items) ==
  findIndex([i \in 1 .. Len(items) |-> ~items[i].dataRef.disabled])

\* A plausible slip: the index guard of Focus.PreviousItem applies only
\* when an item is active, so that ArrowUp without an active item goes to
\* the last enabled item.
focusPreviousItemFromNone(items, activeItemIndex) ==
  LET all == reverse(items)
      idx == findIndex([i \in 1 .. Len(all) |->
                          IF activeItemIndex # -1 /\ Len(all) - (i - 1) - 1 >= activeItemIndex
                          THEN FALSE
                          ELSE ~all[i].dataRef.disabled])
  IN  IF idx = -1 THEN idx ELSE Len(items) - 1 - idx

\* A plausible slip: the index guard of Focus.PreviousItem is left out.
focusPreviousItemUnguarded(items, activeItemIndex) ==
  LET all == reverse(items)
      idx == findIndex([i \in 1 .. Len(all) |-> ~all[i].dataRef.disabled])
  IN  IF idx = -1 THEN idx ELSE Len(items) - 1 - idx

focusPreviousItem(items, activeItemIndex) ==
  LET all == reverse(items)
      idx == findIndex([i \in 1 .. Len(all) |->
                          IF Len(all) - (i - 1) - 1 >= activeItemIndex
                          THEN FALSE
                          ELSE ~all[i].dataRef.disabled])
  IN  IF idx = -1 THEN idx ELSE Len(items) - 1 - idx

\* A plausible slip: Focus.NextItem wraps around to the first enabled item
\* when no enabled item follows the active one.
focusNextItemWraps(items, activeItemIndex) ==
  LET idx == findIndex([i \in 1 .. Len(items) |->
                          IF i - 1 <= activeItemIndex
                          THEN FALSE
                          ELSE ~items[i].dataRef.disabled])
  IN  IF idx = -1
      THEN findIndex([i \in 1 .. Len(items) |-> ~items[i].dataRef.disabled])
      ELSE idx

\* A plausible slip: the index guard of Focus.NextItem is left out.
focusNextItemUnguarded(items, activeItemIndex) ==
  findIndex([i \in 1 .. Len(items) |-> ~items[i].dataRef.disabled])

focusNextItem(items, activeItemIndex) ==
  findIndex([i \in 1 .. Len(items) |->
               IF i - 1 <= activeItemIndex
               THEN FALSE
               ELSE ~items[i].dataRef.disabled])

\* A plausible slip: Focus.LastItem takes the last item, disabled or not.
focusLastItemAny(items) == Len(items) - 1

focusLastItem(items) ==
  LET all == reverse(items)
      idx == findIndex([i \in 1 .. Len(all) |-> ~all[i].dataRef.disabled])
  IN  IF idx = -1 THEN idx ELSE Len(items) - 1 - idx

focusSpecificItem(items, id) ==
  findIndex([i \in 1 .. Len(items) |-> items[i].id = id])

calculateActiveItemIndex(s, focus, id) ==
  IF Len(s.items) <= 0 THEN null
  ELSE
    LET items == s.items
        activeItemIndex == IF s.activeItemIndex = null THEN -1 ELSE s.activeItemIndex
    IN  ensureValidValue(s,
          CASE focus = "FirstItem" -> focusFirstItem(items)
            [] focus = "PreviousItem" -> focusPreviousItem(items, activeItemIndex)
            [] focus = "NextItem" -> focusNextItem(items, activeItemIndex)
            [] focus = "LastItem" -> focusLastItem(items)
            [] focus = "SpecificItem" -> focusSpecificItem(items, id)
            [] focus = "Nothing" -> null)

\* ----------------------------------------------------------- the reducers
reducers_ToggleMenu(s, action) ==
  [s EXCEPT !.menuState = IF s.menuState = "Open" THEN "Closed" ELSE "Open"]

\* A plausible slip: closing also resets the active item and the query.
reducers_CloseMenuResets(s, action) ==
  [s EXCEPT !.menuState = "Closed",
            !.searchQuery = <<>>,
            !.previousActiveIndex = null,
            !.activeItemIndex = null]

reducers_CloseMenu(s, action) == [s EXCEPT !.menuState = "Closed"]

reducers_OpenMenu(s, action) == [s EXCEPT !.menuState = "Open"]

\* A plausible slip: the typed query survives a move of the active item.
reducers_GoToItemKeepsQuery(s, action) ==
  LET activeItemIndex == calculateActiveItemIndex(s, action.focus, action.id)
  IN  IF /\ s.searchQuery = <<>>
         /\ s.previousActiveIndex = s.activeItemIndex
         /\ s.activeItemIndex = activeItemIndex
      THEN s
      ELSE [s EXCEPT !.previousActiveIndex = s.activeItemIndex,
                     !.activeItemIndex = activeItemIndex]

\* A plausible slip: previousActiveIndex is not brought up to date.
reducers_GoToItemKeepsPrevious(s, action) ==
  LET activeItemIndex == calculateActiveItemIndex(s, action.focus, action.id)
  IN  IF /\ s.searchQuery = <<>>
         /\ s.previousActiveIndex = s.activeItemIndex
         /\ s.activeItemIndex = activeItemIndex
      THEN s
      ELSE [s EXCEPT !.searchQuery = <<>>,
                     !.activeItemIndex = activeItemIndex]

reducers_GoToItem(s, action) ==
  LET activeItemIndex == calculateActiveItemIndex(s, action.focus, action.id)
  IN  IF /\ s.searchQuery = <<>>
         /\ s.previousActiveIndex = s.activeItemIndex
         /\ s.activeItemIndex = activeItemIndex
      THEN s
      ELSE [s EXCEPT !.searchQuery = <<>>,
                     !.previousActiveIndex = s.activeItemIndex,
                     !.activeItemIndex = activeItemIndex]

\* A plausible slip: the `&& !disabled` of the Search callback is left out.
searchMatchesDisabledToo(item, searchQuery) ==
  /\ "textValue" \in DOMAIN item.dataRef
  /\ startsWith(item.dataRef.textValue, searchQuery)

\* item.dataRef.current.textValue?.startsWith(searchQuery) && !disabled
searchMatches(item, searchQuery) ==
  /\ "textValue" \in DOMAIN item.dataRef
  /\ startsWith(item.dataRef.textValue, searchQuery)
  /\ ~item.dataRef.disabled

\* A plausible slip: the typed value replaces the query instead of being
\* appended to it.
reducers_SearchNoAppend(s, action) ==
  LET searchQuery == action.value
      match == findIndex([i \in 1 .. Len(s.items) |-> searchMatches(s.items[i], searchQuery)])
  IN  IF match = -1 \/ match = s.activeItemIndex
      THEN [s EXCEPT !.searchQuery = searchQuery]
      ELSE [s EXCEPT !.searchQuery = searchQuery,
                     !.previousActiveIndex = s.activeItemIndex,
                     !.activeItemIndex = match]

\* A plausible slip: the typeahead looks for a match from the active item
\* on, not from the start of the list.
reducers_SearchFromActive(s, action) ==
  LET searchQuery == s.searchQuery \o action.value
      from == IF s.activeItemIndex = null THEN 0 ELSE s.activeItemIndex
      match == findIndex([i \in 1 .. Len(s.items) |->
                            i - 1 >= from /\ searchMatches(s.items[i], searchQuery)])
  IN  IF match = -1 \/ match = s.activeItemIndex
      THEN [s EXCEPT !.searchQuery = searchQuery]
      ELSE [s EXCEPT !.searchQuery = searchQuery,
                     !.previousActiveIndex = s.activeItemIndex,
                     !.activeItemIndex = match]

reducers_Search(s, action) ==
  LET searchQuery == s.searchQuery \o action.value
      match == findIndex([i \in 1 .. Len(s.items) |-> searchMatches(s.items[i], searchQuery)])
  IN  IF match = -1 \/ match = s.activeItemIndex
      THEN [s EXCEPT !.searchQuery = searchQuery]
      ELSE [s EXCEPT !.searchQuery = searchQuery,
                     !.previousActiveIndex = s.activeItemIndex,
                     !.activeItemIndex = match]

\* A plausible slip: ClearSearch leaves the query as it is.
reducers_ClearSearchKeepsQuery(s, action) == s

\* A plausible slip: the timeout also resets the active item.
reducers_ClearSearchResetsActive(s, action) ==
  [s EXCEPT !.searchQuery = <<>>, !.activeItemIndex = null]

reducers_ClearSearch(s, action) == [s EXCEPT !.searchQuery = <<>>]

\* A plausible slip: the new record is put in front of the others.
reducers_RegisterItemPrepends(s, action) ==
  [s EXCEPT !.items = <<[id |-> action.id, dataRef |-> action.dataRef]>> \o s.items]

reducers_RegisterItem(s, action) ==
  [s EXCEPT !.items = Append(s.items, [id |-> action.id, dataRef |-> action.dataRef])]

\* A plausible slip: the active index is kept as it is when another item is
\* removed, without looking the active item up again.
reducers_UnregisterItemNoLookup(s, action) ==
  LET idx == findIndex([i \in 1 .. Len(s.items) |-> s.items[i].id = action.id])
  IN  [s EXCEPT !.items = IF idx # -1 THEN splice(s.items, idx) ELSE s.items,
                !.previousActiveIndex = s.activeItemIndex,
                !.activeItemIndex =
                  IF idx = s.activeItemIndex THEN null ELSE s.activeItemIndex]

\* A plausible slip: slice(idx, 1) for splice(idx, 1), which removes nothing.
reducers_UnregisterItemSlice(s, action) ==
  LET idx == findIndex([i \in 1 .. Len(s.items) |-> s.items[i].id = action.id])
  IN  [s EXCEPT !.previousActiveIndex = s.activeItemIndex,
                !.activeItemIndex =
                  IF idx = s.activeItemIndex THEN null ELSE s.activeItemIndex]

\* A plausible slip: the `idx === state.activeItemIndex` test is left out, so
\* the removed active item is looked up in the list it is no longer in.
reducers_UnregisterItemNoReset(s, action) ==
  LET idx == findIndex([i \in 1 .. Len(s.items) |-> s.items[i].id = action.id])
  IN  [s EXCEPT !.items = IF idx # -1 THEN splice(s.items, idx) ELSE s.items,
                !.previousActiveIndex = s.activeItemIndex,
                !.activeItemIndex =
                  IF s.activeItemIndex = null THEN null
                  ELSE IF idx = s.activeItemIndex THEN -1
                  ELSE IF idx # -1 /\ idx < s.activeItemIndex
                       THEN s.activeItemIndex - 1
                       ELSE s.activeItemIndex]

\* The records of state.items are distinct objects, and indexOf compares by
\* reference: inside one call a record is identified by the slot it has in
\* state.items (`refs`), and `undefined` by a slot no record has.
reducers_UnregisterItem(s, action) ==
  LET nextItems == s.items
      refs == [i \in 1 .. Len(nextItems) |-> i - 1]
      undefined == -1
      currentActiveItem ==
        IF s.activeItemIndex # null
        THEN IF s.activeItemIndex \in 0 .. Len(nextItems) - 1
             THEN refs[s.activeItemIndex + 1]
             ELSE undefined
        ELSE null
      idx == findIndex([i \in 1 .. Len(nextItems) |-> nextItems[i].id = action.id])
      spliced == IF idx # -1 THEN splice(nextItems, idx) ELSE nextItems
      splicedRefs == IF idx # -1 THEN splice(refs, idx) ELSE refs
  IN  [s EXCEPT !.items = spliced,
                !.previousActiveIndex = s.activeItemIndex,
                !.activeItemIndex =
                  IF idx = s.activeItemIndex THEN null
                  ELSE IF currentActiveItem = null THEN null
                  ELSE indexOf(splicedRefs, currentActiveItem)]

stateReducer(s, action) ==
  CASE action.type = "ToggleMenu" -> reducers_ToggleMenu(s, action)
    [] action.type = "CloseMenu" -> reducers_CloseMenu(s, action)
    [] action.type = "OpenMenu" -> reducers_OpenMenu(s, action)
    [] action.type = "GoToItem" -> reducers_GoToItem(s, action)
    [] action.type = "Search" -> reducers_Search(s, action)
    [] action.type = "ClearSearch" -> reducers_ClearSearch(s, action)
    [] action.type = "RegisterItem" -> reducers_RegisterItem(s, action)
    [] action.type = "UnregisterItem" -> reducers_UnregisterItem(s, action)

\* ------------------------------------------------------------ the actions
\* Every action is one dispatch: React.useReducer replaces the state by
\* stateReducer(state, action).
\* The id travels with SpecificItem only; the other intents leave it out.
NoId == 0

\* Nothing is scheduled, nothing of the menu has the focus, nothing was
\* clicked.
Idle ==
  /\ frames = <<>>
  /\ searchTimers = 0
  /\ activeElement = "body"
  /\ clicked = NoId
  /\ thrown = NoError

Init == state = defaultState /\ Idle

ToggleMenu ==
  /\ state' = stateReducer(state, [type |-> "ToggleMenu"])
  /\ UNCHANGED uiVars

CloseMenu ==
  /\ state' = stateReducer(state, [type |-> "CloseMenu"])
  /\ UNCHANGED uiVars

OpenMenu ==
  /\ state' = stateReducer(state, [type |-> "OpenMenu"])
  /\ UNCHANGED uiVars

goToItemAction(focus, id) == [type |-> "GoToItem", focus |-> focus, id |-> id]

GoToItem(focus, id) ==
  /\ state' = stateReducer(state, goToItemAction(focus, id))
  /\ UNCHANGED uiVars

\* A key with event.key.length === 1 is dispatched as typed.
searchAction(value) == [type |-> "Search", value |-> value]

Search(value) ==
  /\ Len(state.searchQuery) < MaxQuery
  /\ state' = stateReducer(state, searchAction(value))
  /\ UNCHANGED uiVars

ClearSearch ==
  /\ state' = stateReducer(state, [type |-> "ClearSearch"])
  /\ UNCHANGED uiVars

\* The data an <Item> keeps in its ref: `disabled` from the prop and
\* `textValue` from the lower-cased text of its element.
bag(disabled, textContent) ==
  [disabled |-> disabled, textValue |-> toLowerCase(textContent)]

idsOf(items) == {items[i].id : i \in 1 .. Len(items)}

registerItemAction(id, dataRef) == [type |-> "RegisterItem", id |-> id, dataRef |-> dataRef]

unregisterItemAction(id) == [type |-> "UnregisterItem", id |-> id]

\* A plausible slip: two <Item>s come with the same id.
RegisterItemSameId(id, disabled, textContent) ==
  /\ Len(state.items) < MaxItems
  /\ state' = stateReducer(state, registerItemAction(id, bag(disabled, textContent)))
  /\ UNCHANGED uiVars

\* An <Item> mounts: every item has an id of its own, so the id is not in
\* the list. Ids are only ever compared for equality; they are handed out
\* in increasing order here, which loses no list up to renaming of ids.
RegisterItem(id, disabled, textContent) ==
  /\ \A j \in idsOf(state.items) : j < id
  /\ state' = stateReducer(state, registerItemAction(id, bag(disabled, textContent)))
  /\ UNCHANGED uiVars

UnregisterItem(id) ==
  /\ state' = stateReducer(state, unregisterItemAction(id))
  /\ UNCHANGED uiVars

\* The `disabled` prop of a mounted <Item> changes: bag.current.disabled is
\* overwritten in place, nothing is dispatched.
SetDisabled(id, disabled) ==
  \E k \in 1 .. Len(state.items) :
    /\ state.items[k].id = id
    /\ state.items[k].dataRef.disabled # disabled
    /\ state' = [state EXCEPT !.items[k].dataRef.disabled = disabled]
    /\ UNCHANGED uiVars

Next ==
  \/ ToggleMenu
  \/ CloseMenu
  \/ OpenMenu
  \/ \E focus \in Focus \ {"SpecificItem"} : GoToItem(focus, NoId)
  \/ \E id \in ItemIds : GoToItem("SpecificItem", id)
  \/ \E c \in Chars : Search(<<c>>)
  \/ ClearSearch
  \/ \E id \in ItemIds, disabled \in BOOLEAN, textContent \in TextContents :
       RegisterItem(id, disabled, textContent)
  \/ \E id \in ItemIds : UnregisterItem(id)
  \/ \E id \in ItemIds, disabled \in BOOLEAN : SetDisabled(id, disabled)

Spec == Init /\ [][Next]_vars

\* ------------------------------------------------------------------ types
TypeOK ==
  /\ state.menuState \in MenuStates
  /\ Len(state.items) <= MaxItems
  /\ Len(state.searchQuery) <= MaxQuery
  /\ state.activeItemIndex \in {null} \cup (0 .. MaxItems - 1)
  /\ state.previousActiveIndex \in {null} \cup (0 .. MaxItems - 1)

\* --------------------------------------------------------- the components
\* Longest queue of d.nextFrame callbacks; an input that schedules one is not
\* taken while the queue is this long.
MaxFrames == 1

\* Everything a handler reads and writes, as one value.
world ==
  [state |-> state,
   frames |-> frames,
   searchTimers |-> searchTimers,
   activeElement |-> activeElement,
   clicked |-> clicked]

\* d.nextFrame(cb): cb runs at a later frame, after the callbacks scheduled
\* before it.
nextFrame(queue, cb) == Append(queue, cb)

\* searchDisposables.dispose(): every pending timeout is cancelled.
dispose(timers) == 0

\* searchDisposables.setTimeout(cb, 350): one more timeout is pending.
setTimeout(timers) == timers + 1

\* The callbacks the handlers hand to d.nextFrame.
\* () => { itemsRef.current?.focus(); dispatch({ type: GoToItem, focus }) }
focusItemsAndGoTo(focus) == [fn |-> "focusItemsAndGoTo", focus |-> focus, id |-> NoId]

\* () => itemsRef.current?.focus()
focusItems == [fn |-> "focusItems", focus |-> "Nothing", id |-> NoId]

\* A plausible slip: Items has an `id` of its own, and the callback looks
\* that element up instead of the active item's.
clickItemsContainer(id) == [fn |-> "clickItem", focus |-> "Nothing", id |-> NoId]

\* () => document.getElementById(id)?.click()
clickItem(id) == [fn |-> "clickItem", focus |-> "Nothing", id |-> id]

\* A plausible slip: itemsRef for buttonRef.
focusItemsForButton == [fn |-> "focusItems", focus |-> "Nothing", id |-> NoId]

\* () => state.buttonRef.current?.focus()
focusButton == [fn |-> "focusButton", focus |-> "Nothing", id |-> NoId]

\* element.focus(). The item list is rendered while the menu is open
\* (<Transition show={menuState === Open}>), so itemsRef.current?.focus()
\* does nothing on a closed menu; the trigger hands the focus it receives
\* on to the item list of an open menu (Button.handleFocus).
focusElement(w, el) ==
  CASE el = "items" ->
         IF w.state.menuState = "Open" THEN [w EXCEPT !.activeElement = "items"] ELSE w
    [] el = "button" ->
         IF w.state.menuState = "Open"
         THEN [w EXCEPT !.activeElement = "items"]
         ELSE [w EXCEPT !.activeElement = "button"]
    [] OTHER -> [w EXCEPT !.activeElement = "body"]

\* One d.nextFrame callback runs.
runFrame(w, cb) ==
  CASE cb.fn = "focusItemsAndGoTo" ->
         LET focused == focusElement(w, "items")
         IN  [focused EXCEPT !.state = stateReducer(w.state, goToItemAction(cb.focus, NoId))]
    [] cb.fn = "focusItems" -> focusElement(w, "items")
    [] cb.fn = "clickItem" ->
         IF cb.id \in idsOf(w.state.items) THEN [w EXCEPT !.clicked = cb.id] ELSE w
    [] cb.fn = "focusButton" -> focusElement(w, "button")

\* The keys of event.key that the handlers name, and one that they do not.
NamedKeys ==
  {" ", "Enter", "Escape", "ArrowUp", "ArrowRight", "ArrowDown", "ArrowLeft",
   "Home", "End", "Tab", "Shift"}

\* event.key.length === 1
printable(key) == key \notin NamedKeys \/ key = " "

Button_handleKeyDown(w, event) ==
  CASE event.key \in {" ", "Enter", "ArrowDown"} ->
         [w EXCEPT !.state = stateReducer(w.state, [type |-> "OpenMenu"]),
                   !.frames = nextFrame(w.frames, focusItemsAndGoTo("FirstItem"))]
    [] event.key = "ArrowUp" ->
         [w EXCEPT !.state = stateReducer(w.state, [type |-> "OpenMenu"]),
                   !.frames = nextFrame(w.frames, focusItemsAndGoTo("LastItem"))]
    [] OTHER -> w

\* A plausible slip: the event.preventDefault() is left out.
Button_handlePointerDownPassive(event) == event

\* event.preventDefault(), seen by the listener on window as
\* event.defaultPrevented.
Button_handlePointerDown(event) == [event EXCEPT !.defaultPrevented = TRUE]

Button_handlePointerUp(w) ==
  [w EXCEPT !.state = stateReducer(w.state, [type |-> "ToggleMenu"]),
            !.frames = nextFrame(w.frames, focusItems)]

\* A plausible slip: the searchDisposables.dispose() at the top is left out.
Items_handleKeyDownKeepsTimers(w, event) ==
  LET disposed == w
      goTo(focus) ==
        [disposed EXCEPT !.state = stateReducer(w.state, goToItemAction(focus, NoId))]
      closed == [disposed EXCEPT !.state = stateReducer(w.state, [type |-> "CloseMenu"])]
  IN  CASE event.key = "Enter" ->
             IF w.state.activeItemIndex # null
             THEN [closed EXCEPT !.frames =
                     nextFrame(w.frames, clickItem(w.state.items[w.state.activeItemIndex + 1].id))]
             ELSE closed
        [] event.key = " " -> disposed
        [] event.key = "ArrowDown" -> goTo("NextItem")
        [] event.key = "ArrowUp" -> goTo("PreviousItem")
        [] event.key = "ArrowRight" -> disposed
        [] event.key = "ArrowLeft" -> disposed
        [] event.key = "Home" -> goTo("FirstItem")
        [] event.key = "End" -> goTo("LastItem")
        [] event.key = "Escape" -> [closed EXCEPT !.frames = nextFrame(w.frames, focusButton)]
        [] event.key = "Tab" -> closed
        [] OTHER ->
             IF printable(event.key)
             THEN [disposed EXCEPT
                     !.state = stateReducer(w.state, searchAction(<<event.key>>)),
                     !.searchTimers = setTimeout(disposed.searchTimers)]
             ELSE disposed

Items_handleKeyDown(w, event) ==
  LET disposed == [w EXCEPT !.searchTimers = dispose(w.searchTimers)]
      goTo(focus) ==
        [disposed EXCEPT !.state = stateReducer(w.state, goToItemAction(focus, NoId))]
      closed == [disposed EXCEPT !.state = stateReducer(w.state, [type |-> "CloseMenu"])]
  IN  CASE event.key = "Enter" ->
             IF w.state.activeItemIndex # null
             THEN [closed EXCEPT !.frames =
                     nextFrame(w.frames, clickItem(w.state.items[w.state.activeItemIndex + 1].id))]
             ELSE closed
        [] event.key = " " -> disposed
        [] event.key = "ArrowDown" -> goTo("NextItem")
        [] event.key = "ArrowUp" -> goTo("PreviousItem")
        [] event.key = "ArrowRight" -> disposed
        [] event.key = "ArrowLeft" -> disposed
        [] event.key = "Home" -> goTo("FirstItem")
        [] event.key = "End" -> goTo("LastItem")
        [] event.key = "Escape" -> [closed EXCEPT !.frames = nextFrame(w.frames, focusButton)]
        [] event.key = "Tab" -> closed
        [] OTHER ->
             IF printable(event.key)
             THEN [disposed EXCEPT
                     !.state = stateReducer(w.state, searchAction(<<event.key>>)),
                     !.searchTimers = setTimeout(disposed.searchTimers)]
             ELSE disposed

\* The `disabled` prop of the mounted <Item> with this id: what the effect
\* of the last render wrote to bag.current.disabled.
disabledProp(s, id) ==
  \E k \in 1 .. Len(s.items) : s.items[k].id = id /\ s.items[k].dataRef.disabled

\* A plausible slip: the `if (disabled) return` is left out.
Item_handlePointerEnterUnguarded(w, id, disabled) ==
  [w EXCEPT !.state = stateReducer(w.state, goToItemAction("SpecificItem", id))]

Item_handlePointerEnter(w, id, disabled) ==
  IF disabled THEN w
  ELSE [w EXCEPT !.state = stateReducer(w.state, goToItemAction("SpecificItem", id))]

\* A plausible slip: the `if (disabled) return` is left out.
Item_handlePointerLeaveUnguarded(w, id, disabled) ==
  [w EXCEPT !.state = stateReducer(w.state, goToItemAction("Nothing", NoId))]

Item_handlePointerLeave(w, id, disabled) ==
  IF disabled THEN w
  ELSE [w EXCEPT !.state = stateReducer(w.state, goToItemAction("Nothing", NoId))]

\* A plausible slip: the CloseMenu dispatch is left out, and the menu stays
\* open after a click on an item.
Item_handlePointerUpKeepsOpen(w, id) == w

Item_handlePointerUp(w, id) ==
  [w EXCEPT !.state = stateReducer(w.state, [type |-> "CloseMenu"])]

\* A plausible slip: the `if (event.defaultPrevented) return` is left out.
Menu_handlerIgnoresPrevented(w, event) ==
  IF w.state.menuState # "Open" THEN w
  ELSE IF event.target # "items"
       THEN [w EXCEPT !.state = stateReducer(w.state, [type |-> "CloseMenu"])]
       ELSE w

\* The pointerdown listener <Menu> puts on window. The trigger's own
\* handlePointerDown has called event.preventDefault() by the time the
\* event reaches window.
Menu_handler(w, event) ==
  IF event.defaultPrevented THEN w
  ELSE IF w.state.menuState # "Open" THEN w
  ELSE IF event.target # "items"
       THEN [w EXCEPT !.state = stateReducer(w.state, [type |-> "CloseMenu"])]
       ELSE w

\* ------------------------------------------------------ a rendered menu
\* Longest query typed on the item list; a printable key is not taken once
\* the query is this long.
MaxTyped == 3

\* Most items of a rendered menu.
MaxRendered == 2

\* The labels of the items of a rendered menu, in document order.
Labels ==
  <<(<<"a", "l", "i", "c", "e">>), (<<"b", "o", "b">>), (<<"c", "h", "a", "r", "l", "i", "e">>)>>

label(i) == Labels[((i - 1) % Len(Labels)) + 1]

\* <Menu> with a trigger and one <Item> per entry of disabledProps, after
\* the register effects have run: item i has id i, the label label(i) and
\* the `disabled` prop disabledProps[i].
rendered(disabledProps) ==
  [defaultState EXCEPT
     !.items = [i \in 1 .. Len(disabledProps) |->
                  [id |-> i, dataRef |-> bag(disabledProps[i], label(i))]]]

\* The printable keys typed in a rendered menu.
TypedKeys == {"a", "b", "o", "l", "i"}

keyEvent(key, shiftKey) == [key |-> key, shiftKey |-> shiftKey]

pointerEvent(target, defaultPrevented) ==
  [target |-> target, defaultPrevented |-> defaultPrevented]

\* A key goes to the element that has the focus.
ButtonKeyDown(key) ==
  /\ activeElement = "button"
  /\ LET w == Button_handleKeyDown(world, keyEvent(key, FALSE))
     IN  /\ Len(w.frames) <= MaxFrames
         /\ state' = w.state
         /\ frames' = w.frames
         /\ searchTimers' = w.searchTimers
         /\ activeElement' = w.activeElement
         /\ clicked' = w.clicked
         /\ UNCHANGED thrown

ButtonPointerUp ==
  /\ LET w == Button_handlePointerUp(world)
     IN  /\ Len(w.frames) <= MaxFrames
         /\ state' = w.state
         /\ frames' = w.frames
         /\ searchTimers' = w.searchTimers
         /\ activeElement' = w.activeElement
         /\ clicked' = w.clicked
         /\ UNCHANGED thrown

ItemsKeyDown(key, shiftKey) ==
  /\ activeElement = "items"
  /\ state.menuState = "Open"
  /\ key \notin NamedKeys => Len(state.searchQuery) < MaxTyped
  /\ LET w == Items_handleKeyDown(world, keyEvent(key, shiftKey))
     IN  /\ Len(w.frames) <= MaxFrames
         /\ state' = w.state
         /\ frames' = w.frames
         /\ searchTimers' = w.searchTimers
         /\ activeElement' = w.activeElement
         /\ clicked' = w.clicked
         /\ UNCHANGED thrown

\* A pointerdown reaches window. On the trigger its default is prevented;
\* elsewhere outside the item list the page may or may not have prevented it.
PointerDown(target, defaultPrevented) ==
  /\ target = "button" => defaultPrevented
  /\ target = "items" => state.menuState = "Open"
  /\ LET event == IF target = "button"
                  THEN Button_handlePointerDown(pointerEvent(target, defaultPrevented))
                  ELSE pointerEvent(target, defaultPrevented)
         w == Menu_handler(world, event)
     IN  /\ state' = w.state
         /\ frames' = w.frames
         /\ searchTimers' = w.searchTimers
         /\ activeElement' = w.activeElement
         /\ clicked' = w.clicked
         /\ UNCHANGED thrown

\* The pointer enters, leaves or is released on the element of a mounted
\* item; the items are on the page while the menu is open.
ItemPointerEnter(id) ==
  /\ state.menuState = "Open"
  /\ id \in idsOf(state.items)
  /\ LET w == Item_handlePointerEnter(world, id, disabledProp(state, id))
     IN  /\ state' = w.state
         /\ frames' = w.frames
         /\ searchTimers' = w.searchTimers
         /\ activeElement' = w.activeElement
         /\ clicked' = w.clicked
         /\ UNCHANGED thrown

ItemPointerLeave(id) ==
  /\ state.menuState = "Open"
  /\ id \in idsOf(state.items)
  /\ LET w == Item_handlePointerLeave(world, id, disabledProp(state, id))
     IN  /\ state' = w.state
         /\ frames' = w.frames
         /\ searchTimers' = w.searchTimers
         /\ activeElement' = w.activeElement
         /\ clicked' = w.clicked
         /\ UNCHANGED thrown

ItemPointerUp(id) ==
  /\ state.menuState = "Open"
  /\ id \in idsOf(state.items)
  /\ LET w == Item_handlePointerUp(world, id)
     IN  /\ state' = w.state
         /\ frames' = w.frames
         /\ searchTimers' = w.searchTimers
         /\ activeElement' = w.activeElement
         /\ clicked' = w.clicked
         /\ UNCHANGED thrown

\* The browser runs the oldest d.nextFrame callback.
NextFrame ==
  /\ frames # <<>>
  /\ LET w == runFrame([world EXCEPT !.frames = Tail(frames)], Head(frames))
     IN  /\ state' = w.state
         /\ frames' = w.frames
         /\ searchTimers' = w.searchTimers
         /\ activeElement' = w.activeElement
         /\ clicked' = w.clicked
         /\ UNCHANGED thrown

\* 350 ms have passed since searchDisposables.setTimeout: ClearSearch.
SearchTimeout ==
  /\ searchTimers > 0
  /\ state' = stateReducer(state, [type |-> "ClearSearch"])
  /\ searchTimers' = searchTimers - 1
  /\ UNCHANGED <<frames, activeElement, clicked, thrown>>

\* The user moves the focus (pointer, Tab) to the trigger, to the item
\* list or away from the menu.
UserFocus(el) ==
  /\ LET w == focusElement(world, el)
     IN  /\ w.activeElement # activeElement
         /\ activeElement' = w.activeElement
  /\ UNCHANGED <<state, frames, searchTimers, clicked, thrown>>

\* ------------------------------------------------------- the test helpers
\* word(input): one keydown event per character.
word(input) == [i \in 1 .. Len(input) |-> keyEvent(input[i], FALSE)]

\* fireEvent.keyDown(element, event) for every event, on the item list.
RECURSIVE keyDowns(_, _)
keyDowns(w, events) ==
  IF events = <<>> THEN w
  ELSE keyDowns(Items_handleKeyDown(w, Head(events)), Tail(events))

\* jest.runAllTimers(): every pending timeout fires, each a ClearSearch.
runAllTimers(w) ==
  IF w.searchTimers > 0
  THEN [w EXCEPT !.state = stateReducer(w.state, [type |-> "ClearSearch"]),
                 !.searchTimers = 0]
  ELSE w

\* await new Promise(d.nextFrame): the callbacks scheduled so far have run.
RECURSIVE runFrames(_)
runFrames(w) ==
  IF w.frames = <<>> THEN w
  ELSE runFrames(runFrame([w EXCEPT !.frames = Tail(w.frames)], Head(w.frames)))

\* type(events): the keys, then the timers, then a frame.
type(w, events) == runFrames(runAllTimers(keyDowns(w, events)))

InitUI ==
  /\ \E n \in 0 .. MaxRendered : \E disabledProps \in [1 .. n -> BOOLEAN] :
       state = rendered(disabledProps)
  /\ Idle

NextUI ==
  \/ \E key \in NamedKeys : ButtonKeyDown(key)
  \/ ButtonPointerUp
  \/ \E key \in NamedKeys \cup {"a"}, shiftKey \in BOOLEAN : ItemsKeyDown(key, shiftKey)
  \/ \E target \in {"button", "items", "outside"}, defaultPrevented \in BOOLEAN :
       PointerDown(target, defaultPrevented)
  \/ NextFrame
  \/ SearchTimeout
  \/ \E el \in {"button", "items", "body"} : UserFocus(el)
  \/ \E id \in ItemIds, disabled \in BOOLEAN : SetDisabled(id, disabled)

SpecUI == InitUI /\ [][NextUI]_vars

\* The browser does run a scheduled frame callback and a pending timeout.
FairSpecUI == SpecUI /\ WF_vars(NextFrame) /\ WF_vars(SearchTimeout)

\* The rendered menu used with the pointer: clicks on the trigger, the
\* pointer over the items and released on them, pointerdowns anywhere, and
\* a key typed on the open item list.
NextPointer ==
  \/ ButtonPointerUp
  \/ \E target \in {"button", "items", "outside"}, defaultPrevented \in BOOLEAN :
       PointerDown(target, defaultPrevented)
  \/ \E id \in ItemIds : ItemPointerEnter(id)
  \/ \E id \in ItemIds : ItemPointerLeave(id)
  \/ \E id \in ItemIds : ItemPointerUp(id)
  \/ ItemsKeyDown("a", FALSE)
  \/ NextFrame
  \/ SearchTimeout
  \/ \E id \in ItemIds, disabled \in BOOLEAN : SetDisabled(id, disabled)

SpecPointer == InitUI /\ [][NextPointer]_vars

\* The menu of the typeahead tests: alice, bob and charlie, all enabled,
\* opened from the trigger with ArrowDown, ArrowUp or the pointer, and keys
\* typed on its item list.
InitType ==
  /\ \E focus \in {"FirstItem", "LastItem", "Nothing"} :
       state = stateReducer(
                 stateReducer(rendered(<<FALSE, FALSE, FALSE>>), [type |-> "OpenMenu"]),
                 goToItemAction(focus, NoId))
  /\ frames = <<>>
  /\ searchTimers = 0
  /\ activeElement = "items"
  /\ clicked = NoId
  /\ thrown = NoError

NextType ==
  \/ \E key \in TypedKeys : ItemsKeyDown(key, FALSE)
  \/ SearchTimeout

SpecType == InitType /\ [][NextType]_vars

\* ------------------------------------------------------ navigation alone
\* The reducer under registrations, unmounts, changes of the disabled prop
\* and every GoToItem: every list of items, every pattern of disabled items
\* and every active item, without the menu status and the typeahead.
NextNavigate ==
  \/ \E focus \in Focus \ {"SpecificItem"} : GoToItem(focus, NoId)
  \/ \E id \in ItemIds : GoToItem("SpecificItem", id)
  \/ \E id \in ItemIds, disabled \in BOOLEAN : RegisterItem(id, disabled, <<"a">>)
  \/ \E id \in ItemIds : UnregisterItem(id)
  \/ \E id \in ItemIds, disabled \in BOOLEAN : SetDisabled(id, disabled)

SpecNavigate == Init /\ [][NextNavigate]_vars

\* ------------------------------------------- navigation and the typeahead
\* The reducer under registrations, changes of the disabled prop, every
\* GoToItem and the typeahead, without unmounts and the menu status.
NextSearch ==
  \/ \E focus \in Focus \ {"SpecificItem"} : GoToItem(focus, NoId)
  \/ \E id \in ItemIds : GoToItem("SpecificItem", id)
  \/ \E c \in Chars : Search(<<c>>)
  \/ ClearSearch
  \/ \E id \in ItemIds, disabled \in BOOLEAN, textContent \in TextContents :
       RegisterItem(id, disabled, textContent)
  \/ \E id \in ItemIds, disabled \in BOOLEAN : SetDisabled(id, disabled)

SpecSearch == Init /\ [][NextSearch]_vars

\* -------------------------------------------------- items without a label
\* What the ref of an <Item> holds when document.getElementById(id) finds
\* no element (the id is not on the rendered element): textValue stays
\* undefined, the record has no such field.
bagWithoutElement(disabled) == [disabled |-> disabled]

\* An <Item> mounts whose element is not found.
RegisterItemWithoutElement(id, disabled) ==
  /\ \A j \in idsOf(state.items) : j < id
  /\ state' = stateReducer(state, registerItemAction(id, bagWithoutElement(disabled)))
  /\ UNCHANGED uiVars

\* What the text of an item can be here: nothing at all, or a letter.
LabelsOrNone == {<<>>, <<"A">>}

\* The reducer over lists of items with a label, with an empty label and
\* without an element, under every GoToItem, Search and ClearSearch.
NextTotal ==
  \/ \E focus \in Focus : GoToItem(focus, NoId)
  \/ \E id \in ItemIds : GoToItem("SpecificItem", id)
  \/ Search(<<"a">>)
  \/ ClearSearch
  \/ \E id \in ItemIds, disabled \in BOOLEAN, textContent \in LabelsOrNone :
       RegisterItem(id, disabled, textContent)
  \/ \E id \in ItemIds, disabled \in BOOLEAN : RegisterItemWithoutElement(id, disabled)

SpecTotal == Init /\ [][NextTotal]_vars

\* --------------------------------------------- what the item list exposes
\* An attribute whose value is undefined is not rendered.
undefined == -3

\* A plausible slip: the id is rebuilt from the position of the item, which
\* is its id only until an item before it unmounts.
ariaActiveDescendantByPosition(s) ==
  IF s.activeItemIndex = null THEN undefined ELSE s.activeItemIndex + 1

\* aria-activedescendant of the item list; items[i]?.id is undefined when
\* there is no item at i.
ariaActiveDescendant(s) ==
  IF s.activeItemIndex = null THEN undefined
  ELSE IF s.activeItemIndex + 1 \in DOMAIN s.items
       THEN s.items[s.activeItemIndex + 1].id
       ELSE undefined

\* ------------------------------------------- components without a <Menu>
\* Menu.name, and the components that read the context of <Menu>.
MenuName == "Menu"

Components == {"Button", "Items", "Item"}

\* The value of MenuContext: the [state, dispatch] pair a <Menu> provides,
\* here the sequence holding its state, and without a <Menu> the default
\* null of React.createContext(null), here the empty sequence.
nullContext == <<>>

provided(s) == <<s>>

\* [Menu.name, Button.name].join('.'), as a sequence of its parts.
componentName(component) == <<MenuName, ".", component>>

\* A plausible slip: the context is created with a default value, and a
\* component without a <Menu> reads that instead of failing.
useMenuContextWithDefault(component, context) ==
  [threw |-> FALSE,
   message |-> NoError,
   context |-> IF context = nullContext THEN provided(defaultState) ELSE context]

\* The context of the enclosing <Menu>, or the error thrown when there is
\* none. The message is the template literal, as a sequence of its parts.
useMenuContext(component, context) ==
  IF context = nullContext
  THEN [threw |-> TRUE,
        message |-> <<"<">> \o component
                      \o <<" /> is missing a parent <", MenuName, " /> component.">>,
        context |-> nullContext]
  ELSE [threw |-> FALSE, message |-> NoError, context |-> context]

\* One render of <Menu.Button>, <Menu.Items> or <Menu.Item>: the call of
\* useMenuContext is the first thing the function does with the menu, and
\* rendering dispatches nothing (the dispatches are in the event handlers
\* and in the effects, which do not run when the render throws).
render(w, component, context) ==
  LET used == useMenuContext(componentName(component), context)
  IN  [state |-> w.state, thrown |-> used.message]

\* render(<Menu.Button>...</Menu.Button>) and the like: the component is
\* rendered in a tree without a <Menu>, next to the menu of the page.
RenderWithoutMenu(component) ==
  /\ LET r == render(world, component, nullContext)
     IN  /\ state' = r.state
         /\ thrown' = r.thrown
  /\ UNCHANGED <<frames, searchTimers, activeElement, clicked>>

\* The component is rendered again inside its <Menu>.
RenderInMenu(component) ==
  /\ LET r == render(world, component, provided(state))
     IN  /\ state' = r.state
         /\ thrown' = r.thrown
  /\ UNCHANGED <<frames, searchTimers, activeElement, clicked>>

\* The rendered menu, used with the trigger and the pointer, and components
\* rendered with and without a <Menu> in between.
NextRender ==
  \/ \E component \in Components : RenderWithoutMenu(component)
  \/ \E component \in Components : RenderInMenu(component)
  \/ ButtonPointerUp
  \/ \E id \in ItemIds : ItemPointerEnter(id)
  \/ NextFrame

SpecRender == InitUI /\ [][NextRender]_vars

\* ------------------------------------------------- vocabulary of the claims
\* The item at JavaScript index i.
At(items, i) == items[i + 1]

validIndex(s, i) == i \in 0 .. Len(s.items) - 1

\* The id of the active item; NoId when no item is active (or the index
\* points at no item).
activeId(s) ==
  IF validIndex(s, s.activeItemIndex) THEN At(s.items, s.activeItemIndex).id ELSE NoId

enabledIndices(s) == {i \in 0 .. Len(s.items) - 1 : ~At(s.items, i).dataRef.disabled}

isLastEnabled(s, i) == i \in enabledIndices(s) /\ \A j \in enabledIndices(s) : j <= i

isFirstEnabled(s, i) == i \in enabledIndices(s) /\ \A j \in enabledIndices(s) : i <= j

\* ------------------------------------------------------------------ claims

\* C1: in every reachable state activeItemIndex is null or an index of
\* state.items; no UnregisterItem leaves it out of range.
C1_ActiveIndexInRange ==
  state.activeItemIndex = null \/ validIndex(state, state.activeItemIndex)

\* C1 witness: an item was removed in front of the active last item, so the
\* index held before the removal is no longer an index of the list while
\* the active index still is.
C1_Witness ==
  /\ state.activeItemIndex # null
  /\ state.previousActiveIndex # null
  /\ state.previousActiveIndex >= Len(state.items)

\* C2: UnregisterItem(id) for an id other than the active item's leaves the
\* same item active: the id at activeItemIndex is the same before and after.
C2_UnregisterOtherKeepsActiveItem ==
  \A id \in ItemIds :
    LET after == stateReducer(state, unregisterItemAction(id))
    IN  (state.activeItemIndex # null /\ activeId(state) # id)
        => (/\ after.activeItemIndex # null
            /\ activeId(after) = activeId(state))

\* C2 witness: the active item moved down by one position because an item
\* with a lower index was removed, and other items are still listed.
C2_Witness ==
  /\ Len(state.items) >= 2
  /\ state.activeItemIndex = Len(state.items) - 1
  /\ state.previousActiveIndex = state.activeItemIndex + 1

\* C3: UnregisterItem with the id of the active item gives
\* activeItemIndex = null and takes that item out of the list.
C3_UnregisterActiveClears ==
  \A id \in ItemIds :
    LET after == stateReducer(state, unregisterItemAction(id))
    IN  (state.activeItemIndex # null /\ activeId(state) = id)
        => (/\ after.activeItemIndex = null
            /\ id \notin idsOf(after.items)
            /\ Len(after.items) = Len(state.items) - 1)

\* C3 witness: the active item was the last of the list and was removed;
\* the index it had is kept as previousActiveIndex and no item is active.
C3_Witness ==
  /\ state.activeItemIndex = null
  /\ state.previousActiveIndex # null
  /\ state.previousActiveIndex = Len(state.items)

\* C4: with the last enabled item active, GoToItem(NextItem) leaves
\* activeItemIndex as it is: no wrap to an earlier item, no null.
C4_NextAtLastEnabledStays ==
  LET after == stateReducer(state, goToItemAction("NextItem", NoId))
  IN  (state.activeItemIndex # null /\ isLastEnabled(state, state.activeItemIndex))
      => after.activeItemIndex = state.activeItemIndex

\* C4 witness: the last enabled item is active after a GoToItem that did not
\* move it (previousActiveIndex = activeItemIndex, empty query), an earlier
\* enabled item exists to wrap to, a disabled item follows, and a further
\* NextItem changes nothing.
C4_Witness ==
  /\ state.activeItemIndex # null
  /\ isLastEnabled(state, state.activeItemIndex)
  /\ state.previousActiveIndex = state.activeItemIndex
  /\ state.searchQuery = <<>>
  /\ \E i \in enabledIndices(state) : i < state.activeItemIndex
  /\ state.activeItemIndex < Len(state.items) - 1
  /\ stateReducer(state, goToItemAction("NextItem", NoId)) = state

\* C5: with the first enabled item active, GoToItem(PreviousItem) leaves
\* activeItemIndex as it is: no wrap to a later item, no null.
C5_PreviousAtFirstEnabledStays ==
  LET after == stateReducer(state, goToItemAction("PreviousItem", NoId))
  IN  (state.activeItemIndex # null /\ isFirstEnabled(state, state.activeItemIndex))
      => after.activeItemIndex = state.activeItemIndex

\* C5 witness: the first enabled item is active after a GoToItem that did
\* not move it, a later enabled item exists to wrap to, a disabled item
\* precedes it, and a further PreviousItem changes nothing.
C5_Witness ==
  /\ state.activeItemIndex # null
  /\ isFirstEnabled(state, state.activeItemIndex)
  /\ state.previousActiveIndex = state.activeItemIndex
  /\ state.searchQuery = <<>>
  /\ \E i \in enabledIndices(state) : i > state.activeItemIndex
  /\ state.activeItemIndex > 0
  /\ stateReducer(state, goToItemAction("PreviousItem", NoId)) = state

\* C6 (as claimed): on a list that is empty or has only disabled items,
\* GoToItem(FirstItem) and GoToItem(LastItem) give activeItemIndex = null,
\* whatever it was before.
C6_FirstLastWithoutEnabledGiveNull ==
  [][\A focus \in {"FirstItem", "LastItem"} :
       (GoToItem(focus, NoId) /\ enabledIndices(state) = {})
       => state'.activeItemIndex = null]_vars

\* C7 (as claimed): a GoToItem of any intent that changes activeItemIndex to
\* a value other than null makes an item active that is not disabled at
\* that moment.
C7_AnyIntentActivatesEnabledOnly ==
  [][\A focus \in Focus, id \in ItemIds \cup {NoId} :
       (/\ GoToItem(focus, id)
        /\ state'.activeItemIndex # state.activeItemIndex
        /\ state'.activeItemIndex # null)
       => state'.activeItemIndex \in enabledIndices(state)]_vars

\* C7 (amended): a GoToItem with intent FirstItem, PreviousItem, NextItem or
\* LastItem that changes activeItemIndex to a value other than null makes an
\* item active that is not disabled at that moment; GoToItem(SpecificItem)
\* makes the registered target active whatever its flag.
C7_ScanningIntentsActivateEnabledOnly ==
  /\ \A focus \in {"FirstItem", "PreviousItem", "NextItem", "LastItem"} :
       LET after == stateReducer(state, goToItemAction(focus, NoId))
       IN  (after.activeItemIndex # state.activeItemIndex /\ after.activeItemIndex # null)
           => after.activeItemIndex \in enabledIndices(state)
  /\ \A id \in idsOf(state.items) :
       activeId(stateReducer(state, goToItemAction("SpecificItem", id))) = id

\* C7 witness: after a GoToItem (empty query) the active item is enabled and
\* was reached from the previous one across a disabled item.
C7_Witness ==
  /\ state.activeItemIndex \in enabledIndices(state)
  /\ state.searchQuery = <<>>
  /\ state.previousActiveIndex # null
  /\ state.previousActiveIndex + 1 < state.activeItemIndex
  /\ \A i \in state.previousActiveIndex + 1 .. state.activeItemIndex - 1 :
       At(state.items, i).dataRef.disabled
  /\ calculateActiveItemIndex(
       [state EXCEPT !.activeItemIndex = state.previousActiveIndex], "NextItem", NoId)
       = state.activeItemIndex

\* The index of the first enabled item whose label starts with q, -1 when
\* there is none.
firstMatch(s, q) ==
  findIndex([i \in 1 .. Len(s.items) |->
               /\ ~s.items[i].dataRef.disabled
               /\ startsWith(s.items[i].dataRef.textValue, q)])

\* C8 (as claimed): Search(c1) followed by Search(c2) gives the same state,
\* in every field, as the single Search(c1 c2).
C8_SearchTwiceEqualsSearchOnce ==
  \A c1, c2 \in Chars :
    reducers_Search(reducers_Search(state, searchAction(<<c1>>)), searchAction(<<c2>>))
      = reducers_Search(state, searchAction(<<c1, c2>>))

\* C8 (amended): the two give the same searchQuery, items and menuState,
\* and the same activeItemIndex whenever an enabled item's label starts with
\* the query followed by c1 c2; the whole state, previousActiveIndex
\* included, is the same whenever Search(c1) leaves activeItemIndex as it is
\* or selects the item that c1 c2 selects. When nothing matches c1 c2 and an
\* item other than the active one matches c1, the two steps leave that item
\* active and the single action leaves activeItemIndex unchanged.
C8_SearchTwiceAgreesOnQuery ==
  \A c1, c2 \in Chars :
    LET two == reducers_Search(reducers_Search(state, searchAction(<<c1>>)),
                               searchAction(<<c2>>))
        one == reducers_Search(state, searchAction(<<c1, c2>>))
        m1 == firstMatch(state, state.searchQuery \o <<c1>>)
        m2 == firstMatch(state, state.searchQuery \o <<c1, c2>>)
    IN  /\ two.searchQuery = state.searchQuery \o <<c1, c2>>
        /\ two.searchQuery = one.searchQuery
        /\ two.items = one.items
        /\ two.menuState = one.menuState
        /\ m2 # -1 => (two.activeItemIndex = m2 /\ one.activeItemIndex = m2)
        /\ (m1 = -1 \/ m1 = state.activeItemIndex \/ m1 = m2) => two = one
        /\ (m2 = -1 /\ m1 # -1 /\ m1 # state.activeItemIndex)
             => (two.activeItemIndex = m1 /\ one.activeItemIndex = state.activeItemIndex)

\* C8 witness: two characters were typed; the first selected one item (now
\* previousActiveIndex), the second moved on to a later item that matches
\* the whole query.
C8_Witness ==
  /\ Len(state.searchQuery) = 2
  /\ state.activeItemIndex # null
  /\ state.previousActiveIndex # null
  /\ state.previousActiveIndex < state.activeItemIndex
  /\ firstMatch(state, state.searchQuery) = state.activeItemIndex
  /\ firstMatch(state, SubSeq(state.searchQuery, 1, 1)) = state.previousActiveIndex

\* C9: a Search that changes activeItemIndex makes an item active that is not
\* disabled at that moment, also when a disabled item with a lower index has
\* a label starting with the query; when only disabled items match,
\* activeItemIndex is unchanged.
C9_SearchSkipsDisabled ==
  \A c \in Chars :
    LET after == stateReducer(state, searchAction(<<c>>))
        q == state.searchQuery \o <<c>>
        labelled == {i \in 0 .. Len(state.items) - 1 :
                       startsWith(At(state.items, i).dataRef.textValue, q)}
    IN  /\ after.activeItemIndex # state.activeItemIndex
             => after.activeItemIndex \in enabledIndices(state) \cap labelled
        /\ labelled \cap enabledIndices(state) = {}
             => after.activeItemIndex = state.activeItemIndex

\* C9 witness: a search made an enabled item active although a disabled item
\* with a lower index has a label that starts with the query.
C9_Witness ==
  /\ state.searchQuery # <<>>
  /\ state.activeItemIndex # null
  /\ state.previousActiveIndex # state.activeItemIndex
  /\ firstMatch(state, state.searchQuery) = state.activeItemIndex
  /\ \E i \in 0 .. state.activeItemIndex - 1 :
       /\ At(state.items, i).dataRef.disabled
       /\ startsWith(At(state.items, i).dataRef.textValue, state.searchQuery)

\* C10 (as claimed): whatever the case of the typed character, Search makes
\* active the first enabled item whose label starts with the query when both
\* are compared without regard to case.
C10_SearchIgnoresCase ==
  [][\A c \in Chars :
       Search(<<c>>) =>
         LET q == toLowerCase(state.searchQuery \o <<c>>)
             m == findIndex([i \in 1 .. Len(state.items) |->
                              /\ ~state.items[i].dataRef.disabled
                              /\ startsWith(toLowerCase(state.items[i].dataRef.textValue), q)])
         IN  m # -1 => state'.activeItemIndex = m]_vars

\* The label of the active item; empty when no item is active.
activeLabel(s) ==
  IF validIndex(s, s.activeItemIndex) THEN At(s.items, s.activeItemIndex).dataRef.textValue
  ELSE <<>>

\* C11: with alice, bob and charlie enabled and an empty query, typing
\* "b", "o" makes bob active, and typing "a", "l", "i" after that makes alice
\* active, whichever item was active at the start.
C11_TypeBoThenAli ==
  state.searchQuery = <<>> =>
    LET bo == type(world, word(<<"b", "o">>))
        ali == type(bo, word(<<"a", "l", "i">>))
    IN  /\ activeLabel(bo.state) = Labels[2]
        /\ activeLabel(ali.state) = Labels[1]

\* C11 witness: "a", "l", "i" has been typed key by key and alice is active;
\* the item active before was bob, which only typing "b" makes active here.
C11_Witness ==
  /\ state.searchQuery = <<"a", "l", "i">>
  /\ activeLabel(state) = Labels[1]
  /\ state.previousActiveIndex = 1

\* C12 (as claimed): UnregisterItem(id) for an id that is not in items gives
\* back a state equal to the prior one in every field.
C12_UnregisterAbsentIsNoOp ==
  \A id \in ItemIds \ idsOf(state.items) :
    stateReducer(state, unregisterItemAction(id)) = state

\* No two records of items have the same id.
noDuplicateIds(items) ==
  \A i, j \in 1 .. Len(items) : items[i].id = items[j].id => i = j

\* C13 (as claimed): items never holds two records with the same id, and a
\* RegisterItem for an id that is already present adds no second record.
C13_RegisterPresentAddsNothing ==
  /\ noDuplicateIds(state.items)
  /\ \A id \in idsOf(state.items), disabled \in BOOLEAN, textContent \in TextContents :
       LET after == stateReducer(state, registerItemAction(id, bag(disabled, textContent)))
       IN  noDuplicateIds(after.items)

\* C13 (amended): with every <Item> registering under an id of its own,
\* items never holds two records with the same id. The reducer itself does
\* not look for the id: RegisterItem appends one record for whatever id it
\* is given, a second one when the id is already present.
C13_UniqueWhileItemsHaveOwnIds ==
  /\ noDuplicateIds(state.items)
  /\ \A id \in ItemIds, disabled \in BOOLEAN, textContent \in TextContents :
       LET record == [id |-> id, dataRef |-> bag(disabled, textContent)]
           after == stateReducer(state, registerItemAction(id, record.dataRef))
       IN  /\ after.items = Append(state.items, record)
           /\ id \in idsOf(state.items) => ~noDuplicateIds(after.items)

\* C13 witness: items were registered, one was unregistered and a new one
\* registered after it, so the ids listed are not 1 .. Len(items); they are
\* still pairwise different.
C13_Witness ==
  /\ Len(state.items) = MaxItems - 1
  /\ idsOf(state.items) # 1 .. Len(state.items)
  /\ MaxItems \in idsOf(state.items)
  /\ Cardinality(idsOf(state.items)) = Len(state.items)

\* C14: CloseMenu sets menuState to Closed and leaves items,
\* activeItemIndex, previousActiveIndex and searchQuery as they were,
\* whatever they are.
C14_CloseChangesOnlyStatus ==
  LET after == stateReducer(state, [type |-> "CloseMenu"])
  IN  /\ after.menuState = "Closed"
      /\ after.items = state.items
      /\ after.activeItemIndex = state.activeItemIndex
      /\ after.previousActiveIndex = state.previousActiveIndex
      /\ after.searchQuery = state.searchQuery

\* C14 witness: a closed menu that still has its items, an active item, a
\* previous index and a query.
C14_Witness ==
  /\ state.menuState = "Closed"
  /\ state.items # <<>>
  /\ state.activeItemIndex # null
  /\ state.previousActiveIndex # null
  /\ state.previousActiveIndex # state.activeItemIndex
  /\ state.searchQuery # <<>>

\* The first and the last enabled index of a list; null when no item is
\* enabled.
firstEnabled(s) ==
  IF enabledIndices(s) = {} THEN null
  ELSE CHOOSE i \in enabledIndices(s) : \A j \in enabledIndices(s) : i <= j

lastEnabled(s) ==
  IF enabledIndices(s) = {} THEN null
  ELSE CHOOSE i \in enabledIndices(s) : \A j \in enabledIndices(s) : j <= i

\* C15 (as claimed): on a closed menu Enter, Space or ArrowDown on the
\* trigger gives, once the scheduled callbacks have run with no input in
\* between, an open menu whose active item is the first enabled one (none
\* when no item is enabled), and ArrowUp one whose active item is the last
\* enabled one; the menu is open before the GoToItem is dispatched.
C15_TriggerKeysOpenAndActivate ==
  state.menuState = "Closed" =>
    \A key \in {"Enter", " ", "ArrowDown", "ArrowUp"} :
      LET pressed == Button_handleKeyDown(world, keyEvent(key, FALSE))
          done == runFrames(pressed)
      IN  /\ pressed.state.menuState = "Open"
          /\ pressed.frames # <<>>
          /\ done.state.menuState = "Open"
          /\ done.state.activeItemIndex =
               IF key = "ArrowUp" THEN lastEnabled(state) ELSE firstEnabled(state)

\* C16: Enter on the item list of an open menu closes the menu; when an
\* item is active at the key press, that item's element is clicked once the
\* scheduled callbacks have run, and when none is active the key press
\* schedules nothing and clicks nothing.
C16_EnterClosesAndInvokesActive ==
  state.menuState = "Open" =>
    LET pressed == Items_handleKeyDown(world, keyEvent("Enter", FALSE))
        done == runFrames(pressed)
    IN  /\ pressed.state.menuState = "Closed"
        /\ done.state.menuState = "Closed"
        /\ state.activeItemIndex # null =>
             /\ Len(pressed.frames) = Len(frames) + 1
             /\ done.clicked = activeId(state)
        /\ state.activeItemIndex = null =>
             /\ pressed.frames = frames
             /\ done.clicked = runFrames(world).clicked

\* C16 witness: the menu is closed, the click scheduled by Enter has run and
\* the element clicked is the active item's.
C16_Witness ==
  /\ state.menuState = "Closed"
  /\ frames = <<>>
  /\ clicked # NoId
  /\ clicked = activeId(state)

\* C17: Escape, Tab and Shift+Tab on the item list of an open menu each close
\* the menu. Escape schedules a callback, and once the scheduled callbacks
\* have run with no input in between the trigger has the focus; Tab and
\* Shift+Tab schedule nothing and leave the focus where it is.
C17_EscapeTabClose ==
  state.menuState = "Open" =>
    LET escape == Items_handleKeyDown(world, keyEvent("Escape", FALSE))
    IN  /\ escape.state.menuState = "Closed"
        /\ Len(escape.frames) = Len(frames) + 1
        /\ runFrames(escape).activeElement = "button"
        /\ runFrames(escape).state.menuState = "Closed"
        /\ \A shiftKey \in BOOLEAN :
             LET tab == Items_handleKeyDown(world, keyEvent("Tab", shiftKey))
             IN  /\ tab.state.menuState = "Closed"
                 /\ tab.frames = frames
                 /\ tab.activeElement = activeElement

\* C17 witness: Escape was pressed on the item list: the menu is closed, the
\* item list still has the focus and the callback that focuses the trigger
\* is waiting for its frame.
C17_Witness ==
  /\ state.menuState = "Closed"
  /\ activeElement = "items"
  /\ frames = <<focusButton>>

\* A step in which an input reaches the menu: a key, a pointer event, a
\* focus change or a changed prop; a frame callback and a timeout are not.
Input ==
  \/ \E key \in NamedKeys : ButtonKeyDown(key)
  \/ ButtonPointerUp
  \/ \E key \in NamedKeys \cup {"a"}, shiftKey \in BOOLEAN : ItemsKeyDown(key, shiftKey)
  \/ \E target \in {"button", "items", "outside"}, defaultPrevented \in BOOLEAN :
       PointerDown(target, defaultPrevented)
  \/ \E el \in {"button", "items", "body"} : UserFocus(el)
  \/ \E id \in ItemIds, disabled \in BOOLEAN : SetDisabled(id, disabled)

\* C18 (as claimed): the query is cleared after inactivity: unless inputs
\* keep reaching the menu for ever, the query is empty again after the last
\* of them, whichever key was the last one pressed on the item list.
C18_QueryClearedWhenIdle ==
  []<><<Input>>_vars \/ []<>(state.searchQuery = <<>>)

\* C19 (as claimed): a next-frame callback still pending when the menu is
\* closed is cancelled: a callback that runs while the menu is closed never
\* changes activeItemIndex.
C19_NoStaleCallbackAfterClose ==
  [][(NextFrame /\ state.menuState = "Closed")
       => state'.activeItemIndex = state.activeItemIndex]_vars

\* C20 (as claimed): a pointerdown whose target is outside the item list,
\* the trigger included, closes an open menu and changes nothing on a closed
\* one; a pointerdown inside the item list never closes the menu.
C20_PointerDownOutsideCloses ==
  /\ \A target \in {"button", "outside"}, defaultPrevented \in BOOLEAN :
       (target = "button" => defaultPrevented) =>
         LET after == Menu_handler(world, pointerEvent(target, defaultPrevented))
         IN  /\ state.menuState = "Open" => after.state.menuState = "Closed"
             /\ state.menuState = "Closed" => after = world
  /\ \A defaultPrevented \in BOOLEAN :
       Menu_handler(world, pointerEvent("items", defaultPrevented)).state.menuState
         = state.menuState

\* C20 (amended): a pointerdown outside the item list whose default was not
\* prevented closes an open menu, changing menuState only, and changes
\* nothing on a closed one; a pointerdown whose default was prevented, as
\* every pointerdown on the trigger is, changes nothing; a pointerdown inside
\* the item list changes nothing.
C20_UnpreventedPointerDownOutsideCloses ==
  /\ \A target \in {"button", "outside"} :
       LET after == Menu_handler(world, pointerEvent(target, FALSE))
       IN  /\ state.menuState = "Open" =>
                after = [world EXCEPT !.state.menuState = "Closed"]
           /\ state.menuState = "Closed" => after = world
  /\ \A target \in {"button", "items", "outside"} :
       Menu_handler(world, pointerEvent(target, TRUE)) = world
  /\ \A defaultPrevented \in BOOLEAN :
       Menu_handler(world, pointerEvent("items", defaultPrevented)) = world

\* C20 witness: an open menu with an active item and a query, which a
\* pointerdown outside closes and a pointerdown on the trigger does not.
C20_Witness ==
  /\ state.menuState = "Open"
  /\ state.activeItemIndex # null
  /\ state.searchQuery # <<>>
  /\ Menu_handler(world, pointerEvent("outside", FALSE)).state.menuState = "Closed"
  /\ Menu_handler(world, pointerEvent("button", TRUE)).state.menuState = "Open"

\* A click on the trigger, as the browser delivers it: the pointerdown
\* reaches Button.handlePointerDown and then the listener on window, the
\* pointerup reaches Button.handlePointerUp.
pointerDownOnButton(w) ==
  Menu_handler(w, Button_handlePointerDown(pointerEvent("button", FALSE)))

clickButton(w) == Button_handlePointerUp(pointerDownOnButton(w))

flipped(menuState) == IF menuState = "Open" THEN "Closed" ELSE "Open"

\* C21: a complete click on the trigger flips menuState exactly once and
\* changes no other field of the menu state: the pointerdown changes
\* nothing, the listener on window included, the pointerup toggles, and the
\* callbacks the click leaves pending do not flip it back. A click on the
\* trigger of an open menu never ends with the menu open.
C21_ClickOnTriggerFlipsOnce ==
  /\ pointerDownOnButton(world) = world
  /\ clickButton(world).state = [state EXCEPT !.menuState = flipped(state.menuState)]
  /\ runFrames(clickButton(world)).state.menuState = flipped(state.menuState)
  /\ state.menuState = "Open" => runFrames(clickButton(world)).state.menuState # "Open"

\* C21 witness: an open menu with an active item, which a click on the
\* trigger closes, and a closed menu, which it opens.
C21_Witness ==
  /\ state.menuState = "Open"
  /\ state.activeItemIndex # null
  /\ frames = <<>>
  /\ runFrames(clickButton(world)).state.menuState = "Closed"
  /\ runFrames(clickButton(runFrames(clickButton(world)))).state.menuState = "Open"

\* C22: pointer enter on an enabled registered item makes exactly that item
\* active, whichever item was active before; pointer enter on a disabled
\* item leaves the whole state unchanged.
C22_PointerEnterActivatesEnabled ==
  \A i \in 0 .. Len(state.items) - 1 :
    LET id == At(state.items, i).id
        after == Item_handlePointerEnter(world, id, disabledProp(state, id))
    IN  /\ i \in enabledIndices(state) =>
             /\ after.state.activeItemIndex = i
             /\ activeId(after.state) = id
             /\ after.state.items = state.items
             /\ after.state.menuState = state.menuState
        /\ i \notin enabledIndices(state) => after = world

\* C22 witness: an open menu whose first item is active, whose second item
\* is enabled and becomes the active one when the pointer enters it, and
\* with a disabled item that the pointer enters without effect.
C22_Witness ==
  /\ state.menuState = "Open"
  /\ state.activeItemIndex = 0
  /\ 1 \in enabledIndices(state)
  /\ Item_handlePointerEnter(world, At(state.items, 1).id, FALSE).state.activeItemIndex = 1
  /\ \E i \in 0 .. Len(state.items) - 1 :
       /\ i \notin enabledIndices(state)
       /\ Item_handlePointerEnter(world, At(state.items, i).id, TRUE) = world

\* C23: GoToItem(Focus.Nothing) yields activeItemIndex = null in every state,
\* with or without an id in the action; pointer leave on an enabled item
\* therefore leaves no item active, and pointer leave on a disabled item
\* leaves the whole state unchanged.
C23_NothingClearsActive ==
  /\ \A id \in ItemIds \cup {NoId} :
       stateReducer(state, goToItemAction("Nothing", id)).activeItemIndex = null
  /\ calculateActiveItemIndex(state, "Nothing", NoId) = null
  /\ \A i \in 0 .. Len(state.items) - 1 :
       LET id == At(state.items, i).id
           after == Item_handlePointerLeave(world, id, disabledProp(state, id))
       IN  /\ ~disabledProp(state, id) =>
                /\ after.state.activeItemIndex = null
                /\ activeId(after.state) = NoId
                /\ after.state.items = state.items
           /\ disabledProp(state, id) => after = world

\* C23 witness: an active enabled item that the pointer leaves, after which
\* no item is active, next to a disabled item that the pointer leaves with
\* the active item kept.
C23_Witness ==
  /\ validIndex(state, state.activeItemIndex)
  /\ state.activeItemIndex \in enabledIndices(state)
  /\ Item_handlePointerLeave(world, activeId(state), FALSE).state.activeItemIndex = null
  /\ \E i \in 0 .. Len(state.items) - 1 :
       /\ i \notin enabledIndices(state)
       /\ Item_handlePointerLeave(world, At(state.items, i).id, TRUE).state.activeItemIndex
            = state.activeItemIndex

\* C24: pointer-up on any registered item, enabled or disabled, results in
\* menuState = Closed and changes no other field of the menu state, and
\* nothing outside it.
C24_PointerUpOnItemCloses ==
  \A i \in 0 .. Len(state.items) - 1 :
    LET after == Item_handlePointerUp(world, At(state.items, i).id)
    IN  /\ after.state = [state EXCEPT !.menuState = "Closed"]
        /\ after = [world EXCEPT !.state = after.state]

\* C24 witness: an open menu with an active item and a typed query, an
\* enabled and a disabled item, closed by a pointer-up on either.
C24_Witness ==
  /\ state.menuState = "Open"
  /\ state.activeItemIndex # null
  /\ state.searchQuery # <<>>
  /\ enabledIndices(state) # {}
  /\ \E i \in 0 .. Len(state.items) - 1 : i \notin enabledIndices(state)
  /\ \A i \in 0 .. Len(state.items) - 1 :
       Item_handlePointerUp(world, At(state.items, i).id).state.menuState = "Closed"

\* The message the tests expect of a component without a <Menu>.
missingParent(component) ==
  <<"<", "Menu", ".", component, " /> is missing a parent <", "Menu", " /> component.">>

\* C25: rendering the trigger, the item list or an item without a parent
\* menu context throws, with a message that names the component and says
\* that a parent <Menu /> is missing, and leaves the menu state as it was;
\* the last render has thrown nothing else.
C25_MissingMenuThrows ==
  /\ \A component \in Components :
       LET r == render(world, component, nullContext)
       IN  /\ r.thrown = missingParent(component)
           /\ r.state = state
  /\ thrown # NoError => \E component \in Components : thrown = missingParent(component)

\* C25 witness: an item was rendered without a <Menu> and the error names
\* it, while the menu of the page is open with an active item.
C25_Witness ==
  /\ thrown = missingParent("Item")
  /\ state.menuState = "Open"
  /\ state.activeItemIndex # null

\* C26: in every reachable state aria-activedescendant is the id of the
\* item at activeItemIndex when activeItemIndex is not null and is absent
\* when it is null; it never references an id that is not registered.
C26_ActiveDescendantIsActiveItem ==
  /\ state.activeItemIndex # null =>
       /\ validIndex(state, state.activeItemIndex)
       /\ ariaActiveDescendant(state) = At(state.items, state.activeItemIndex).id
  /\ state.activeItemIndex = null => ariaActiveDescendant(state) = undefined
  /\ ariaActiveDescendant(state) # undefined =>
       ariaActiveDescendant(state) \in idsOf(state.items)

\* C26 witness: an item is active that is no longer at the position it was
\* registered at, and its id is the one exposed.
C26_Witness ==
  /\ state.activeItemIndex # null
  /\ ariaActiveDescendant(state) # state.activeItemIndex + 1
  /\ ariaActiveDescendant(state) = activeId(state)

\* The enabled indices after and before the active one, null counting
\* as -1.
activeOrMinusOne(s) == IF s.activeItemIndex = null THEN -1 ELSE s.activeItemIndex

enabledAfter(s) == {i \in enabledIndices(s) : i > activeOrMinusOne(s)}

enabledBefore(s) == {i \in enabledIndices(s) : i < activeOrMinusOne(s)}

\* C27: for every item list, disabled pattern and activeItemIndex a (null
\* counting as -1), GoToItem(NextItem) resolves to the smallest enabled
\* index greater than a and GoToItem(PreviousItem) to the largest enabled
\* index smaller than a; when there is no such index the result is the
\* activeItemIndex unchanged.
C27_NextPreviousResolveToNearestEnabled ==
  LET next == stateReducer(state, goToItemAction("NextItem", NoId)).activeItemIndex
      previous == stateReducer(state, goToItemAction("PreviousItem", NoId)).activeItemIndex
  IN  /\ enabledAfter(state) # {} =>
           /\ next \in enabledAfter(state)
           /\ \A j \in enabledAfter(state) : next <= j
      /\ enabledAfter(state) = {} => next = state.activeItemIndex
      /\ enabledBefore(state) # {} =>
           /\ previous \in enabledBefore(state)
           /\ \A j \in enabledBefore(state) : j <= previous
      /\ enabledBefore(state) = {} => previous = state.activeItemIndex
      /\ next = calculateActiveItemIndex(state, "NextItem", NoId)
      /\ previous = calculateActiveItemIndex(state, "PreviousItem", NoId)

\* C27 witness: the middle of three items is disabled; from the first,
\* NextItem skips it to the third, and from the third PreviousItem would
\* skip it to the first.
C27_Witness ==
  /\ Len(state.items) = 3
  /\ enabledIndices(state) = {0, 2}
  /\ state.activeItemIndex = 0
  /\ calculateActiveItemIndex(state, "NextItem", NoId) = 2
  /\ calculateActiveItemIndex(state, "PreviousItem", NoId) = 0
  /\ calculateActiveItemIndex([state EXCEPT !.activeItemIndex = 2], "PreviousItem", NoId) = 0

\* C28: for every item list with at least one enabled item,
\* GoToItem(FirstItem) resolves to the smallest index of an enabled item and
\* GoToItem(LastItem) to the largest, whatever activeItemIndex is.
C28_FirstLastResolveToOutermostEnabled ==
  enabledIndices(state) # {} =>
    /\ stateReducer(state, goToItemAction("FirstItem", NoId)).activeItemIndex
         = firstEnabled(state)
    /\ stateReducer(state, goToItemAction("LastItem", NoId)).activeItemIndex
         = lastEnabled(state)
    /\ \A a \in {null} \cup (0 .. Len(state.items) - 1) :
         LET s == [state EXCEPT !.activeItemIndex = a]
         IN  /\ isFirstEnabled(state, calculateActiveItemIndex(s, "FirstItem", NoId))
             /\ isLastEnabled(state, calculateActiveItemIndex(s, "LastItem", NoId))

\* C28 witness: the first and the last of three items are disabled and the
\* one between them is active; FirstItem and LastItem both resolve to it,
\* with that item active and with no item active.
C28_Witness ==
  /\ Len(state.items) = 3
  /\ enabledIndices(state) = {1}
  /\ state.activeItemIndex = 1
  /\ calculateActiveItemIndex(state, "FirstItem", NoId) = 1
  /\ calculateActiveItemIndex(state, "LastItem", NoId) = 1
  /\ calculateActiveItemIndex([state EXCEPT !.activeItemIndex = null], "LastItem", NoId) = 1

\* C29 (as claimed): GoToItem(SpecificItem, id) resolves to the index of
\* the registered item whose id is id, and to null when no registered item
\* has that id, whatever activeItemIndex was before.
C29_SpecificItemResolvesOrNull ==
  \A id \in ItemIds :
    LET after == stateReducer(state, goToItemAction("SpecificItem", id))
    IN  /\ id \in idsOf(state.items) =>
             /\ validIndex(after, after.activeItemIndex)
             /\ At(after.items, after.activeItemIndex).id = id
        /\ id \notin idsOf(state.items) => after.activeItemIndex = null

\* A state of the shape of StateDefinition whose indices are null or
\* indices of the item list.
wellFormed(s) ==
  /\ DOMAIN s = DOMAIN defaultState
  /\ s.menuState \in MenuStates
  /\ s.activeItemIndex \in {null} \cup (0 .. Len(s.items) - 1)
  /\ s.previousActiveIndex \in {null} \cup (0 .. MaxItems - 1)
  /\ \A k \in 1 .. Len(s.searchQuery) : s.searchQuery[k] \in {"a", "A"}

\* C30: GoToItem with every Focus, with or without an id, Search and
\* ClearSearch are total: in every reachable state, the empty item list and
\* items without a label included, each gives a well-formed next state with
\* the same items and the same menuState; on the empty list every Focus
\* gives null.
C30_NavigateSearchClearAreTotal ==
  /\ wellFormed(state)
  /\ \A focus \in Focus, id \in ItemIds \cup {NoId} :
       LET after == stateReducer(state, goToItemAction(focus, id))
       IN  /\ wellFormed(after)
           /\ after.items = state.items
           /\ after.menuState = state.menuState
           /\ state.items = <<>> => after.activeItemIndex = null
  /\ \A c \in Chars :
       LET after == stateReducer(state, searchAction(<<c>>))
       IN  /\ wellFormed(after)
           /\ after.items = state.items
           /\ after.menuState = state.menuState
  /\ LET after == stateReducer(state, [type |-> "ClearSearch"])
     IN  /\ wellFormed(after)
         /\ after.items = state.items
         /\ after.menuState = state.menuState

\* C30 witness: a list with an item without an element, an item with an
\* empty label and an item with a label, one of them active, and a typed
\* query that another key extends.
C30_Witness ==
  /\ \E i \in 1 .. Len(state.items) : "textValue" \notin DOMAIN state.items[i].dataRef
  /\ \E i \in 1 .. Len(state.items) :
       /\ "textValue" \in DOMAIN state.items[i].dataRef
       /\ state.items[i].dataRef.textValue = <<>>
  /\ \E i \in 1 .. Len(state.items) :
       /\ "textValue" \in DOMAIN state.items[i].dataRef
       /\ state.items[i].dataRef.textValue = <<"a">>
  /\ state.activeItemIndex # null
  /\ state.searchQuery = <<"a">>
  /\ stateReducer(state, searchAction(<<"a">>)).searchQuery = <<"a", "a">>

\* The indices of the enabled items whose lower-cased label starts with q.
matching(s, q) ==
  {i \in enabledIndices(s) : startsWith(At(s.items, i).dataRef.textValue, q)}

\* C31: Search(c) sets searchQuery to the old query followed by c and looks
\* for the lowest-index enabled item whose lower-cased label starts with the
\* new query, from the start of the list; if there is one at an index other
\* than activeItemIndex, previousActiveIndex becomes the old activeItemIndex
\* and activeItemIndex that index; otherwise only searchQuery changes.
C31_SearchFindsLowestMatch ==
  \A c \in Chars :
    LET after == stateReducer(state, searchAction(<<c>>))
        query == state.searchQuery \o <<c>>
        found == matching(state, query)
        moves == \E i \in found : (\A j \in found : i <= j) /\ i # state.activeItemIndex
    IN  /\ after.searchQuery = query
        /\ moves =>
             /\ after.activeItemIndex \in found
             /\ \A j \in found : after.activeItemIndex <= j
             /\ after = [state EXCEPT !.searchQuery = query,
                                      !.previousActiveIndex = state.activeItemIndex,
                                      !.activeItemIndex = after.activeItemIndex]
        /\ ~moves => after = [state EXCEPT !.searchQuery = query]

\* C31 witness: the second of two items is active and the first, enabled,
\* matches the typed character as well: the typeahead goes back to the first.
C31_Witness ==
  /\ state.activeItemIndex = 1
  /\ state.searchQuery = <<>>
  /\ matching(state, <<"a">>) = {0, 1}
  /\ stateReducer(state, searchAction(<<"a">>)).activeItemIndex = 0
  /\ stateReducer(state, searchAction(<<"a">>)).previousActiveIndex = 1

\* ArrowDown on the item list, as the reducer sees it.
arrowDown(s) == stateReducer(s, goToItemAction("NextItem", NoId))

C33_PreviousIsValueBeforeLastChange ==
  [][/\ state'.activeItemIndex # state.activeItemIndex =>
          state'.previousActiveIndex = state.activeItemIndex
     /\ state'.activeItemIndex = state.activeItemIndex =>
          state'.previousActiveIndex = state.previousActiveIndex]_vars

\* Every GoToItem a component dispatches: each Focus without an id, and
\* SpecificItem with every id.
Navigations ==
  {goToItemAction(focus, NoId) : focus \in Focus}
    \cup {goToItemAction("SpecificItem", id) : id \in ItemIds}

\* The no-op test of reducers[GoToItem].
suppressed(s, action) ==
  /\ s.searchQuery = <<>>
  /\ s.previousActiveIndex = s.activeItemIndex
  /\ calculateActiveItemIndex(s, action.focus, action.id) = s.activeItemIndex

\* C34: after every GoToItem, of any Focus and from any state, searchQuery
\* is empty; when the GoToItem is not suppressed as a no-op,
\* previousActiveIndex is the activeItemIndex held before it and
\* activeItemIndex is the resolver's result, with menuState and items
\* unchanged; a suppressed one returns the state as it is.
C34_GoToItemClearsQueryAndRecordsPrevious ==
  \A action \in Navigations :
    LET after == stateReducer(state, action)
    IN  /\ after.searchQuery = <<>>
        /\ after.menuState = state.menuState
        /\ after.items = state.items
        /\ ~suppressed(state, action) =>
             /\ after.previousActiveIndex = state.activeItemIndex
             /\ after.activeItemIndex
                  = calculateActiveItemIndex(state, action.focus, action.id)
        /\ suppressed(state, action) => after = state

\* C34 witness: a typed query and an active item; GoToItem(LastItem) moves
\* to another item, empties the query and records the item left.
C34_Witness ==
  /\ state.searchQuery # <<>>
  /\ state.activeItemIndex = 0
  /\ state.previousActiveIndex # 0
  /\ LET after == stateReducer(state, goToItemAction("LastItem", NoId))
     IN  /\ after.activeItemIndex \notin {null, 0}
         /\ after.previousActiveIndex = 0
         /\ after.searchQuery = <<>>

\* C35: every key press on the item list cancels the timeout pending from
\* an earlier key press: at most one timeout is pending at any time, and
\* after a key press has been handled the only timeout pending is the one
\* that key press scheduled, if it typed a character, and none otherwise.
C35_KeyPressCancelsPendingTimer ==
  /\ searchTimers \in {0, 1}
  /\ \A key \in NamedKeys \cup TypedKeys :
       LET after == Items_handleKeyDown(world, keyEvent(key, FALSE))
       IN  /\ key \in NamedKeys => after.searchTimers = 0
           /\ key \notin NamedKeys => after.searchTimers = 1

\* C35 witness: a character was typed and its timeout is pending; a further
\* character leaves one timeout pending, ArrowDown leaves none.
C35_Witness ==
  /\ searchTimers = 1
  /\ state.searchQuery # <<>>
  /\ Items_handleKeyDown(world, keyEvent("b", FALSE)).searchTimers = 1
  /\ Items_handleKeyDown(world, keyEvent("ArrowDown", FALSE)).searchTimers = 0

\* --------------------------------------------- mounting and unmounting
\* Items mount and unmount while the menu opens and closes, an item is made
\* active and characters are typed.
NextRegister ==
  \/ \E id \in ItemIds, disabled \in BOOLEAN, textContent \in TextContents :
       RegisterItem(id, disabled, textContent)
  \/ \E id \in ItemIds : UnregisterItem(id)
  \/ ToggleMenu
  \/ \E id \in ItemIds : GoToItem("SpecificItem", id)
  \/ \E value \in Chars : Search(value)

SpecRegister == Init /\ [][NextRegister]_vars

\* The items of `items` other than the one with this id, in their order.
without(items, id) == SelectSeq(items, LAMBDA item : item.id # id)

\* C36: state.items lists the registered items in the order of their
\* RegisterItem calls (ids are handed out in increasing order, so in
\* increasing order of id): RegisterItem appends the record at the end,
\* UnregisterItem of a registered id removes that one record and keeps the
\* others in their order, and neither changes menuState or searchQuery.
C36_ItemsInRegistrationOrder ==
  /\ \A i, j \in 1 .. Len(state.items) : i < j => state.items[i].id < state.items[j].id
  /\ \A id \in ItemIds, disabled \in BOOLEAN :
       LET dataRef == bag(disabled, <<"a">>)
           after == stateReducer(state, registerItemAction(id, dataRef))
       IN  id \notin idsOf(state.items) =>
             /\ after.items = Append(state.items, [id |-> id, dataRef |-> dataRef])
             /\ after.menuState = state.menuState
             /\ after.searchQuery = state.searchQuery
  /\ \A id \in idsOf(state.items) :
       LET after == stateReducer(state, unregisterItemAction(id))
       IN  /\ after.items = without(state.items, id)
           /\ Len(after.items) = Len(state.items) - 1
           /\ after.menuState = state.menuState
           /\ after.searchQuery = state.searchQuery

\* C36 witness: the first of three items was unmounted and mounted again
\* while the menu was open with a character typed; it is now the last of
\* the list, and unmounting the middle one keeps the other two in order.
C36_Witness ==
  /\ Len(state.items) = 3
  /\ state.menuState = "Open"
  /\ state.searchQuery # <<>>
  /\ state.items[1].dataRef.textValue # state.items[3].dataRef.textValue
  /\ stateReducer(state, unregisterItemAction(state.items[2].id)).items
       = <<state.items[1], state.items[3]>>

\* A step of a closed menu, or one that opens or closes it.
aroundClosed == state.menuState = "Closed" \/ state'.menuState # state.menuState

\* The same item is active after the step as before it.
sameActiveItem ==
  /\ state'.activeItemIndex = state.activeItemIndex
  /\ [i \in 1 .. Len(state'.items) |-> state'.items[i].id]
       = [i \in 1 .. Len(state.items) |-> state.items[i].id]

\* C37 (as stated): with an item active, closing the menu, whatever happens
\* to the closed menu other than GoToItem, Search and UnregisterItem, and
\* reopening it from the trigger leave the active item and searchQuery as
\* they were.
C37_ClosedMenuKeepsItemAndQuery ==
  [][aroundClosed /\ state.activeItemIndex # null =>
       sameActiveItem /\ state'.searchQuery = state.searchQuery]_vars

\* C37 (amended): with or without an item active, they leave the active
\* item as it was, and searchQuery as it was unless a pending timeout fired
\* meanwhile, which empties it.
C37_ClosedMenuKeepsItemAndQueryUntilTimeout ==
  [][aroundClosed =>
       /\ sameActiveItem
       /\ \/ state'.searchQuery = state.searchQuery
          \/ searchTimers > 0 /\ searchTimers' < searchTimers /\ state'.searchQuery = <<>>]_vars

\* C37 witness: the menu was closed by the pointer with an item active and a
\* character typed, and a click on the trigger reopens it with both kept.
C37_Witness ==
  /\ state.menuState = "Closed"
  /\ state.activeItemIndex # null
  /\ state.searchQuery # <<>>
  /\ clickButton(world).state = [state EXCEPT !.menuState = "Open"]

\* The state after the same action was dispatched k times in a row.
RECURSIVE repeated(_, _, _)
repeated(s, action, k) ==
  IF k = 0 THEN s ELSE stateReducer(repeated(s, action, k - 1), action)

\* C38: the same GoToItem dispatched again and again, with nothing in
\* between, reaches a fixed point: for FirstItem, LastItem, SpecificItem and
\* Nothing the third one returns the state unchanged, and for NextItem and
\* PreviousItem the one after Len(items) + 1 of them does; the reducer being
\* a function of the state, so does every later one.
C38_RepeatedGoToItemSettles ==
  \A action \in Navigations :
    LET n == IF action.focus \in {"NextItem", "PreviousItem"}
             THEN Len(state.items) + 1
             ELSE 2
        settled == repeated(state, action, n)
    IN  stateReducer(settled, action) = settled

\* C38 witness: no item is active, a character is typed and all three items
\* are enabled; the fourth ArrowDown still changes the state and the fifth
\* does not, and the second Home still changes it and the third does not.
C38_Witness ==
  LET down == goToItemAction("NextItem", NoId)
      home == goToItemAction("FirstItem", NoId)
  IN  /\ Len(state.items) = 3
      /\ state.activeItemIndex = null
      /\ state.searchQuery # <<>>
      /\ repeated(state, down, 4) # repeated(state, down, 3)
      /\ repeated(state, down, 5) = repeated(state, down, 4)
      /\ repeated(state, home, 2) # repeated(state, home, 1)
      /\ repeated(state, home, 3) = repeated(state, home, 2)

\* C39: Enter on the item list of an open menu never ends with a click on
\* the element of an item that is disabled at the key press; the active
\* item can be one, having been disabled after it became active.
C39_EnterNeverClicksDisabledItem ==
  (/\ state.menuState = "Open"
   /\ frames = <<>>
   /\ validIndex(state, state.activeItemIndex)
   /\ At(state.items, state.activeItemIndex).dataRef.disabled)
    => LET unclicked == [world EXCEPT !.clicked = NoId]
           pressed == Items_handleKeyDown(unclicked, keyEvent("Enter", FALSE))
       IN  runFrames(pressed).clicked # activeId(state)

\* ------------------------------------------- the timeout of the typeahead
\* The rendered menu with a character typed on its item list, closed and
\* reopened with the pointer while items mount and unmount and the timeout
\* of the typed character is pending or fires.
NextClear ==
  \/ ButtonPointerUp
  \/ PointerDown("outside", FALSE)
  \/ \E id \in ItemIds : ItemPointerUp(id)
  \/ ItemsKeyDown("a", FALSE)
  \/ NextFrame
  \/ SearchTimeout
  \/ \E id \in ItemIds, textContent \in TextContents : RegisterItem(id, FALSE, textContent)
  \/ \E id \in ItemIds : UnregisterItem(id)

SpecClear == InitUI /\ [][NextClear]_vars

\* C40: ClearSearch changes searchQuery only. Whenever the timeout of a
\* typed character is pending, on an open menu or on one closed with the
\* pointer, before or after items were registered or unregistered, its
\* firing leaves menuState, items, activeItemIndex and previousActiveIndex
\* as they are and empties searchQuery.
C40_ClearSearchChangesQueryOnly ==
  LET after == stateReducer(state, [type |-> "ClearSearch"])
      fired == runAllTimers(world)
  IN  /\ after.menuState = state.menuState
      /\ after.items = state.items
      /\ after.activeItemIndex = state.activeItemIndex
      /\ after.previousActiveIndex = state.previousActiveIndex
      /\ after.searchQuery = <<>>
      /\ searchTimers > 0 => fired.state = after
      /\ \A id \in idsOf(state.items) :
           LET closed == Item_handlePointerUp(world, id)
           IN  /\ closed.searchTimers = searchTimers
               /\ closed.searchTimers > 0 =>
                    runAllTimers(closed).state = [closed.state EXCEPT !.searchQuery = <<>>]

\* C40 witness: a character was typed and made an item active, the menu was
\* closed with the pointer and a third item was registered since; the
\* timeout is still pending.
C40_Witness ==
  /\ state.menuState = "Closed"
  /\ searchTimers > 0
  /\ state.searchQuery # <<>>
  /\ state.activeItemIndex # null
  /\ state.previousActiveIndex # state.activeItemIndex
  /\ Len(state.items) = MaxRendered + 1

====
